---- MODULE Spec2Model ----
(***************************************************************************)
(* Model of src/api/suggest.ts: the suggestion endpoint, its enrichment    *)
(* merger with the process-wide cache, and the daily cache maintenance.    *)
(***************************************************************************)
EXTENDS Integers, Sequences, FiniteSets, TLC

\* ---------------------------------------------------------------- bounds
\* Number of handler invocations in one run (they may overlap).
MaxRequests == 2
\* Longest list of suggestions the suggestion API answers with.
MaxSuggestions == 2

\* ------------------------------------------------------------ data model
\* JavaScript's undefined, where a string is expected and where an object is.
undefined == "undefined"
noObject == [type |-> "undefined"]

\* The display texts the suggestion API answers with. They stand for very
\* long strings, so that two entries can cross the maintenance threshold
\* (see keyLength).
Titles == {"a", "b"}

\* The names the entity API answers with: "A" is "a" in another case.
EntityNames == {"a", "A", "b"}

\* String.prototype.toLowerCase on the strings of the model.
toLowerCase(s) == IF s = "A" THEN "a" ELSE s

\* The url the suggestion API attaches to a display text.
Urls == {"u1"}

\* type BingSuggestion
BingSuggestion == [displayText : Titles, url : Urls]

\* The value the handler reads from process.env.BING_APP_ID.
AppIds == {undefined, "appid"}

\* req.query.q and req.query.enhance
Queries == {undefined, "q1"}
EnhanceValues == {undefined, "true", "1"}

\* The one-day public cache header value.
OneDay == "public, max-age=86400"

RECURSIVE SeqsUpTo(_, _)
\* All sequences over S of length at most n.
SeqsUpTo(S, n) ==
  IF n = 0 THEN {<<>>}
  ELSE LET shorter == SeqsUpTo(S, n - 1)
       IN  shorter \cup {Append(s, e) : s \in {t \in shorter : Len(t) = n - 1}, e \in S}

\* ------------------------------------------------------ errors (utils.js)
\* throwServerError(message, statusCode): raises a classified ServerError.
throwServerError(statusCode) ==
  [tag |-> "throw", class |-> "ServerError", statusCode |-> statusCode]

\* Any exception that is not a ServerError (TypeError on a field access of
\* undefined, a rejected fetch, a JSON parse error).
throwOther == [tag |-> "throw", class |-> "Error"]

return(v) == [tag |-> "return", value |-> v]

\* ------------------------------------------------- the suggestion fetcher
\* What the suggestion API can answer with.
SuggestionJson ==
  {[_type |-> "NetworkFailure"],
   [_type |-> "ErrorResponse", errors |-> <<[code |-> "RateLimitExceeded"]>>],
   [_type |-> "ErrorResponse", errors |-> <<[code |-> "InvalidAuthorization"]>>],
   [_type |-> "Suggestions", suggestionGroups |-> <<[name |-> "Web"]>>]}
  \cup {[_type |-> "Suggestions",
         suggestionGroups |-> <<[name |-> "Web", searchSuggestions |-> raw]>>]
        : raw \in SeqsUpTo(BingSuggestion, MaxSuggestions)}

RECURSIVE pushAll_swapped(_, _)
\* pushAll with title and value taken from the wrong fields.
pushAll_swapped(results, rawSuggestions) ==
  IF rawSuggestions = <<>> THEN results
  ELSE pushAll_swapped(Append(results, [type  |-> "search",
                                        title |-> Head(rawSuggestions).url,
                                        value |-> Head(rawSuggestions).displayText]),
                       Tail(rawSuggestions))

RECURSIVE pushAll(_, _)
\* rawSuggestions.forEach(s => results.push({type, title, value}))
pushAll(results, rawSuggestions) ==
  IF rawSuggestions = <<>> THEN results
  ELSE pushAll(Append(results, [type  |-> "search",
                                title |-> Head(rawSuggestions).displayText,
                                value |-> Head(rawSuggestions).url]),
               Tail(rawSuggestions))

\* json.suggestionGroups[0].searchSuggestions || []
rawSuggestionsOf(json) ==
  LET group == json.suggestionGroups[1]
  IN  IF "searchSuggestions" \in DOMAIN group THEN group.searchSuggestions ELSE <<>>

\* fetchBingSuggestions that does not tell the rate-limit envelope apart.
fetchBingSuggestions_noRateLimit(json) ==
  IF json._type \in {"NetworkFailure", "ErrorResponse"} THEN throwOther
  ELSE return(pushAll(<<>>, rawSuggestionsOf(json)))

\* fetchBingSuggestions: the outcome of the promise for the API's answer.
fetchBingSuggestions(json) ==
  IF json._type = "NetworkFailure" THEN throwOther
  ELSE IF json._type = "ErrorResponse" /\ json.errors = <<>> THEN throwOther
  ELSE IF json._type = "ErrorResponse" /\ json.errors[1].code = "RateLimitExceeded"
    THEN throwServerError(429)
  ELSE IF "suggestionGroups" \notin DOMAIN json THEN throwOther
  ELSE return(pushAll(<<>>, rawSuggestionsOf(json)))

\* --------------------------------------------------- the cache (NodeCache)
\* new NodeCache(): no keys.
EmptyCache == [k \in {} |-> undefined]

\* cache.get that never finds a key.
cacheGet_alwaysMiss(c, key) == noObject

\* cache.get(key)
cacheGet(c, key) == IF key \in DOMAIN c THEN c[key] ELSE noObject

\* cache.set(key, value)
cacheSet(c, key, value) ==
  [k \in DOMAIN c \cup {key} |-> IF k = key THEN value ELSE c[k]]

\* key.length as the store accounts it: each title of the model stands for a
\* string of 63,999,760 characters.
keyLength(key) == IF key \in Titles THEN 63999760 ELSE 0

\* The store's size of an object value: 80 per own property.
valLength(value) == 80 * Cardinality(DOMAIN value)

RECURSIVE sumOver(_, _, _)
sumOver(c, keys, kind) ==
  IF keys = {} THEN 0
  ELSE LET k == CHOOSE x \in keys : TRUE
       IN  (IF kind = "k" THEN keyLength(k) ELSE valLength(c[k]))
           + sumOver(c, keys \ {k}, kind)

\* cache.getStats()
getStats(c) == [ksize |-> sumOver(c, DOMAIN c, "k"),
                vsize |-> sumOver(c, DOMAIN c, "v")]

\* The threshold taken in mebibytes instead of millions of bytes.
overLimit_mebibytes(c) == getStats(c).vsize + getStats(c).ksize > 128 * 1048576

\* The threshold itself taken as over the limit.
overLimit_atLeast(c) == getStats(c).vsize + getStats(c).ksize >= 128 * 1000000

\* (vsize + ksize) * 0.000001 > 128 in IEEE doubles is, for every integer
\* byte count, the same as vsize + ksize > 128000000.
overLimit(c) == getStats(c).vsize + getStats(c).ksize > 128 * 1000000

\* ---------------------------------------------------- the entity API
\* The entities the entity API can name first in its answer.
Entity ==
  {[name |-> n, webSearchUrl |-> "w1",
    entityPresentationInfo |->
      [entityScenario |-> sc, entityTypeDisplayHint |-> "hint"]]
   : n \in EntityNames, sc \in {"DominantEntity", "DisambiguationItem"}}
  \cup
  {[name |-> "b", webSearchUrl |-> "w1", image |-> [thumbnailUrl |-> "img"],
    entityPresentationInfo |->
      [entityScenario |-> "DominantEntity", entityTypeDisplayHint |-> "hint"]]}

\* What the entity API can answer with.
EntityJson ==
  {[_type |-> "NetworkFailure"],
   [_type |-> "ErrorResponse", errors |-> <<[code |-> "RateLimitExceeded"]>>],
   [_type |-> "SearchResponse"],
   [_type |-> "SearchResponse", entities |-> [value |-> <<>>]]}
  \cup {[_type |-> "SearchResponse", entities |-> [value |-> <<e>>]] : e \in Entity}

\* resultToCache without the comparison of the entity's name with the title.
resultToCache_noNameCheck(json, resultsX, title) ==
  IF json._type = "NetworkFailure" THEN throwOther
  ELSE IF json._type = "ErrorResponse" /\ json.errors = <<>> THEN throwOther
  ELSE IF "entities" \notin DOMAIN json THEN return(resultsX)
  ELSE LET entity == IF json.entities.value # <<>>
                       THEN json.entities.value[1] ELSE EmptyCache
       IN  IF "entityPresentationInfo" \notin DOMAIN entity THEN throwOther
           ELSE IF entity.entityPresentationInfo.entityScenario = "DominantEntity"
             THEN return([type        |-> "entity",
                          title       |-> entity.name,
                          value       |-> entity.webSearchUrl,
                          entityImage |-> IF "image" \in DOMAIN entity
                                            THEN entity.image.thumbnailUrl
                                            ELSE undefined,
                          subtitle2   |->
                            entity.entityPresentationInfo.entityTypeDisplayHint])
             ELSE return(resultsX)

\* The then-callback of an enrichment fetch (lines 83-113), up to the cache
\* write: it returns the value to cache, or throws. resultsX is results[x]
\* and title is suggestions[x].title, both captured by the closure.
resultToCache(json, resultsX, title) ==
  IF json._type = "NetworkFailure" THEN throwOther
  ELSE IF json._type = "ErrorResponse" /\ json.errors = <<>> THEN throwOther
  ELSE IF "entities" \notin DOMAIN json THEN return(resultsX)
  ELSE LET entity == IF json.entities.value # <<>>
                       THEN json.entities.value[1] ELSE EmptyCache
       IN  IF "entityPresentationInfo" \notin DOMAIN entity THEN throwOther
           ELSE IF /\ entity.entityPresentationInfo.entityScenario = "DominantEntity"
                   /\ toLowerCase(entity.name) = toLowerCase(title)
             THEN return([type        |-> "entity",
                          title       |-> entity.name,
                          value       |-> entity.webSearchUrl,
                          entityImage |-> IF "image" \in DOMAIN entity
                                            THEN entity.image.thumbnailUrl
                                            ELSE undefined,
                          subtitle2   |->
                            entity.entityPresentationInfo.entityTypeDisplayHint])
             ELSE return(resultsX)

\* ------------------------------------------------- the enrichment merger
RECURSIVE entitiesLoop_oncePerTitle(_, _, _, _)
\* The loop issuing no second fetch for a title it already fetches.
entitiesLoop_oncePerTitle(c, suggestions, x, acc) ==
  IF x > Len(suggestions) THEN acc
  ELSE LET cached == cacheGet(c, suggestions[x].title)
           again  == \E y \in acc.fetches : suggestions[y].title = suggestions[x].title
       IN  IF cached # noObject
             THEN entitiesLoop_oncePerTitle(c, suggestions, x + 1,
                               [acc EXCEPT !.results = Append(@, cached)])
             ELSE entitiesLoop_oncePerTitle(c, suggestions, x + 1,
                               [acc EXCEPT !.results = Append(@, suggestions[x]),
                                           !.fullyEnhanced = FALSE,
                                           !.fetches = IF again THEN @ ELSE @ \cup {x}])

RECURSIVE entitiesLoop_hitKeepsSuggestion(_, _, _, _)
\* The loop leaving results[x] = suggestions[x] on a cache hit.
entitiesLoop_hitKeepsSuggestion(c, suggestions, x, acc) ==
  IF x > Len(suggestions) THEN acc
  ELSE LET cached == cacheGet(c, suggestions[x].title)
       IN  IF cached # noObject
             THEN entitiesLoop_hitKeepsSuggestion(c, suggestions, x + 1,
                               [acc EXCEPT !.results = Append(@, suggestions[x])])
             ELSE entitiesLoop_hitKeepsSuggestion(c, suggestions, x + 1,
                               [acc EXCEPT !.results = Append(@, suggestions[x]),
                                           !.fullyEnhanced = FALSE,
                                           !.fetches = @ \cup {x}])

RECURSIVE entitiesLoop_lastSlotDecides(_, _, _, _)
\* The loop setting fullyEnhanced anew in every slot: true on a hit.
entitiesLoop_lastSlotDecides(c, suggestions, x, acc) ==
  IF x > Len(suggestions) THEN acc
  ELSE LET cached == cacheGet(c, suggestions[x].title)
       IN  IF cached # noObject
             THEN entitiesLoop_lastSlotDecides(c, suggestions, x + 1,
                               [acc EXCEPT !.results = Append(@, cached),
                                           !.fullyEnhanced = TRUE])
             ELSE entitiesLoop_lastSlotDecides(c, suggestions, x + 1,
                               [acc EXCEPT !.results = Append(@, suggestions[x]),
                                           !.fullyEnhanced = FALSE,
                                           !.fetches = @ \cup {x}])

RECURSIVE entitiesLoop_awaitsEntity(_, _, _, _)
\* The loop waiting for the entity API on a miss and returning its entity.
entitiesLoop_awaitsEntity(c, suggestions, x, acc) ==
  IF x > Len(suggestions) THEN acc
  ELSE LET cached == cacheGet(c, suggestions[x].title)
       IN  IF cached # noObject
             THEN entitiesLoop_awaitsEntity(c, suggestions, x + 1,
                               [acc EXCEPT !.results = Append(@, cached)])
             ELSE entitiesLoop_awaitsEntity(c, suggestions, x + 1,
                               [acc EXCEPT !.results =
                                             Append(@, [type        |-> "entity",
                                                        title       |-> suggestions[x].title,
                                                        value       |-> "w1",
                                                        entityImage |-> undefined,
                                                        subtitle2   |-> "hint"]),
                                           !.fetches = @ \cup {x}])

RECURSIVE entitiesLoop(_, _, _, _)
\* The for loop of fetchBingEntities from slot x on; acc is what the loop has
\* built so far: results, fullyEnhanced and the slots a fetch was issued for.
entitiesLoop(c, suggestions, x, acc) ==
  IF x > Len(suggestions) THEN acc
  ELSE LET cached == cacheGet(c, suggestions[x].title)
       IN  IF cached # noObject
             THEN entitiesLoop(c, suggestions, x + 1,
                               [acc EXCEPT !.results = Append(@, cached)])
             ELSE entitiesLoop(c, suggestions, x + 1,
                               [acc EXCEPT !.results = Append(@, suggestions[x]),
                                           !.fullyEnhanced = FALSE,
                                           !.fetches = @ \cup {x}])

\* fetchBingEntities(suggestions) against the cache c.
fetchBingEntities(c, suggestions) ==
  entitiesLoop(c, suggestions, 1,
               [results |-> <<>>, fullyEnhanced |-> TRUE, fetches |-> {}])

\* ------------------------------------------------- kinds of answers
\* The kind of answer the suggestion API gave.
suggestionKind(json) ==
  IF json._type = "ErrorResponse"
    THEN IF json.errors = <<>> THEN "NoErrors" ELSE json.errors[1].code
    ELSE json._type

\* The kind of answer the entity API gave to the search for title.
entityKind(json, title) ==
  IF json._type = "ErrorResponse"
    THEN IF json.errors = <<>> THEN "NoErrors" ELSE json.errors[1].code
  ELSE IF json._type = "NetworkFailure" THEN "NetworkFailure"
  ELSE IF "entities" \notin DOMAIN json THEN "NoEntities"
  ELSE IF json.entities.value = <<>> THEN "EmptyList"
  ELSE LET entity == json.entities.value[1]
       IN  IF "entityPresentationInfo" \notin DOMAIN entity THEN "NoPresentationInfo"
           ELSE IF entity.entityPresentationInfo.entityScenario # "DominantEntity"
             THEN "NotDominant"
           ELSE IF toLowerCase(entity.name) # toLowerCase(title) THEN "Mismatch"
           ELSE "Match"

\* ------------------------------------------------------------------ state
VARIABLES
  BING_APP_ID,   \* process.env.BING_APP_ID
  cache,         \* the process-wide NodeCache: title -> EdgeSuggestion
  req,           \* per handler invocation: its inputs, position and response
  pending,       \* the entity-API calls in flight: <<request, slot>>
  running,       \* whether the Node process is still running
  disturbed,     \* the requests whose enrichment a failed call or a flush disturbed
  last           \* the step taken last: what ran, for which request and slot,
                 \* and the kind of answer it handled

vars == <<BING_APP_ID, cache, req, pending, running, disturbed, last>>

Requests == 1..MaxRequests

IdleRequest ==
  [pc |-> "idle", q |-> undefined, enhance |-> undefined,
   suggestCalls |-> 0, entityCalls |-> 0, cacheGets |-> 0,
   rawSuggestions |-> <<>>, suggestions |-> <<>>,
   status |-> 0, cacheControl |-> undefined, body |-> noObject]

Init ==
  /\ BING_APP_ID \in AppIds
  /\ cache = EmptyCache
  /\ req = [r \in Requests |-> IdleRequest]
  /\ pending = {}
  /\ running = TRUE
  /\ disturbed = {}
  /\ last = [op |-> "init", r |-> 0, x |-> 0, kind |-> "none"]

\* catch that answers every exception, an unclassified one with status 500.
catch_always500(r, err) ==
  [r EXCEPT !.pc = "returned",
            !.status = IF err.class = "ServerError" /\ err.statusCode # 0
                         THEN err.statusCode ELSE 500]

\* catch (err): res.sendStatus(statusCode || 500) for a ServerError, nothing
\* at all otherwise.
catch(r, err) ==
  IF err.class = "ServerError"
    THEN [r EXCEPT !.pc = "returned",
                   !.status = IF err.statusCode = 0 THEN 500 ELSE err.statusCode]
    ELSE [r EXCEPT !.pc = "returned"]

\* validate with the credential checked before the query.
validate_credentialFirst(q, appId) ==
  IF appId = undefined THEN throwServerError(500)
  ELSE IF q = undefined THEN throwServerError(400)
  ELSE return(q)

\* validate without the credential check.
validate_noCredentialCheck(q, appId) ==
  IF q = undefined THEN throwServerError(400) ELSE return(q)

\* The first statements of the handler's try block: the two checks.
validate(q, appId) ==
  IF q = undefined THEN throwServerError(400)
  ELSE IF appId = undefined THEN throwServerError(500)
  ELSE return(q)

\* The handler up to its await: the two checks, then the suggestion fetch.
HandlerStart(r, q, enhance) ==
  /\ running
  /\ req[r].pc = "idle"
  \* requests are numbered as they arrive
  /\ \A earlier \in Requests : earlier < r => req[earlier].pc # "idle"
  /\ LET given   == [req[r] EXCEPT !.q = q, !.enhance = enhance]
         checked == validate(q, BING_APP_ID)
     IN  req' = [req EXCEPT ![r] =
           IF checked.tag = "throw" THEN catch(given, checked)
           ELSE [given EXCEPT !.pc = "awaiting", !.suggestCalls = 1]]
  /\ last' = [op |-> "start", r |-> r, x |-> 0, kind |-> "none"]
  /\ UNCHANGED <<BING_APP_ID, cache, pending, running, disturbed>>

\* The enhance test taking every value that is present for a request to enhance.
enhanceRequested_truthy(enhance) == enhance # undefined

\* enhance === 'true'
enhanceRequested(enhance) == enhance = "true"

\* The handler from the resumption of its await to its return.
HandlerResume(r, json) ==
  /\ running
  /\ req[r].pc = "awaiting"
  /\ LET fetched == fetchBingSuggestions(json)
     IN  IF fetched.tag = "throw"
           THEN /\ req' = [req EXCEPT ![r] = catch(req[r], fetched)]
                /\ UNCHANGED pending
           ELSE LET merged == IF enhanceRequested(req[r].enhance)
                                THEN fetchBingEntities(cache, fetched.value)
                                ELSE [results |-> fetched.value,
                                      fullyEnhanced |-> TRUE, fetches |-> {}]
                    issued == {<<r, x>> : x \in merged.fetches}
                IN  /\ req' = [req EXCEPT ![r] =
                          [@ EXCEPT !.pc = "returned",
                                    !.rawSuggestions = rawSuggestionsOf(json),
                                    !.suggestions = fetched.value,
                                    !.entityCalls = Cardinality(issued),
                                    !.cacheGets = IF enhanceRequested(req[r].enhance)
                                                    THEN Len(fetched.value) ELSE 0,
                                    !.cacheControl = IF merged.fullyEnhanced
                                                       THEN OneDay ELSE undefined,
                                    !.status = 200,
                                    !.body = [q |-> req[r].q,
                                              suggestions |-> merged.results]]]
                    /\ pending' = pending \cup issued
  /\ last' = [op |-> "resume", r |-> r, x |-> 0, kind |-> suggestionKind(json)]
  /\ UNCHANGED <<BING_APP_ID, cache, running, disturbed>>

\* One enrichment fetch of request r, slot x, settles with the answer json.
\* The promise chain has no catch: a rejected fetch and a callback that throws
\* end in an unhandled rejection, which the runtime either only reports or
\* ends the process on (its default since Node 15).
EnrichmentSettle(r, x, json) ==
  /\ running
  /\ <<r, x>> \in pending
  /\ pending' = pending \ {<<r, x>>}
  /\ LET title   == req[r].suggestions[x].title
         outcome == resultToCache(json, req[r].body.suggestions[x], title)
     IN  IF outcome.tag = "return"
           THEN /\ cache' = cacheSet(cache, title, outcome.value)
                /\ running' = TRUE
                /\ disturbed' = disturbed
           ELSE /\ cache' = cache
                /\ running' \in BOOLEAN
                /\ disturbed' = IF json._type = "NetworkFailure"
                                  THEN disturbed \cup {r} ELSE disturbed
  /\ last' = [op |-> "settle", r |-> r, x |-> x,
              kind |-> entityKind(json, req[r].suggestions[x].title)]
  /\ UNCHANGED <<BING_APP_ID, req>>

\* The daily NodeCron callback.
MaintenanceTick ==
  /\ running
  /\ cache' = IF overLimit(cache) THEN EmptyCache ELSE cache
  /\ disturbed' = IF overLimit(cache)
                    THEN disturbed \cup {r \in Requests : req[r].entityCalls > 0}
                    ELSE disturbed
  /\ last' = [op |-> "tick", r |-> 0, x |-> 0,
              kind |-> IF overLimit(cache) THEN "flushed" ELSE "kept"]
  /\ UNCHANGED <<BING_APP_ID, req, pending, running>>

Next ==
  \/ \E r \in Requests, q \in Queries, enhance \in EnhanceValues :
       HandlerStart(r, q, enhance)
  \/ \E r \in Requests, json \in SuggestionJson : HandlerResume(r, json)
  \/ \E r \in Requests, x \in 1..MaxSuggestions, json \in EntityJson :
       EnrichmentSettle(r, x, json)
  \/ MaintenanceTick

Spec == Init /\ [][Next]_vars

\* ----------------------------------------------------------------- claims
\* The entity-API calls of request r that are in flight.
pendingOf(r) == {p \in pending : p[1] = r}

\* Request r made no call to the suggestion API nor to the entity API.
noNetworkCall(r) ==
  /\ req[r].suggestCalls = 0
  /\ req[r].entityCalls = 0
  /\ pendingOf(r) = {}

\* C1: a request without q is answered with status 400 and calls neither the
\* suggestion API nor the entity API, whatever the credential, the enhance
\* flag and the cache hold.
C1_MissingQueryIs400 ==
  \A r \in Requests :
    (req[r].pc # "idle" /\ req[r].q = undefined)
      => /\ req[r].pc = "returned"
         /\ req[r].status = 400
         /\ noNetworkCall(r)

\* C1 witness: a request without q, asking for enhancement while the cache
\* holds entries, was answered with 400.
C1_Witness ==
  \E r \in Requests :
    /\ req[r].q = undefined
    /\ req[r].enhance = "true"
    /\ req[r].status = 400
    /\ cache # EmptyCache

\* C2 as stated: every request handled while the credential is unset is
\* answered with status 500 and makes no network call.
C2_Original ==
  \A r \in Requests :
    (req[r].pc # "idle" /\ BING_APP_ID = undefined)
      => /\ req[r].status = 500
         /\ noNetworkCall(r)

\* C2 amended: while the credential is unset no request makes a network call,
\* and a request that carries q is answered with status 500 (one without q is
\* answered with 400 first).
C2_UnsetCredentialIs500 ==
  \A r \in Requests :
    (req[r].pc # "idle" /\ BING_APP_ID = undefined)
      => /\ req[r].pc = "returned"
         /\ noNetworkCall(r)
         /\ req[r].status = IF req[r].q = undefined THEN 400 ELSE 500

\* C2 witness: a request with q was answered with 500, the credential unset.
C2_Witness ==
  \E r \in Requests :
    /\ BING_APP_ID = undefined
    /\ req[r].q # undefined
    /\ req[r].status = 500

\* The plain suggestion made from one raw item of the suggestion API.
plainOf(raw) == [type |-> "search", title |-> raw.displayText, value |-> raw.url]

\* The step taken last was the resumption of request r with a list of
\* suggestions (the cache is then still the one r's lookups read).
resumedWithList(r) ==
  /\ last.op = "resume"
  /\ last.r = r
  /\ last.kind = "Suggestions"

\* Slot i of request r's suggestions has a cache entry.
isCached(r, i) == req[r].suggestions[i].title \in DOMAIN cache

\* C3: a RateLimitExceeded envelope from the suggestion API is answered with
\* status 429; the step leaves the cache unchanged, and a request answered
\* with 429 has issued no entity-API call, even with enhance=true.
C3_RateLimitIs429 ==
  [][/\ (last'.op = "resume" /\ last'.kind = "RateLimitExceeded")
          => /\ req'[last'.r].pc = "returned"
             /\ req'[last'.r].status = 429
             /\ cache' = cache
     /\ \A r \in Requests :
          req'[r].status = 429 => (req'[r].entityCalls = 0 /\ pendingOf(r)' = {})]_vars

\* C3 witness: a request with enhance=true was just answered with 429 while
\* the cache holds entries.
C3_Witness ==
  /\ last.op = "resume"
  /\ last.kind = "RateLimitExceeded"
  /\ req[last.r].enhance = "true"
  /\ req[last.r].status = 429
  /\ cache # EmptyCache

\* C4: with enhance anything but "true", the answer to a list of N raw
\* suggestions is status 200 with exactly N items in upstream order, item i
\* being {type: "search", title: displayText, value: url} and nothing else,
\* under the one-day Cache-Control header, whatever the cache holds.
C4_PlainResponse ==
  \A r \in Requests :
    (req[r].status = 200 /\ req[r].enhance # "true")
      => /\ Len(req[r].body.suggestions) = Len(req[r].rawSuggestions)
         /\ \A i \in 1..Len(req[r].rawSuggestions) :
              /\ req[r].body.suggestions[i] = plainOf(req[r].rawSuggestions[i])
              /\ DOMAIN req[r].body.suggestions[i] = {"type", "title", "value"}
         /\ req[r].cacheControl = OneDay
         /\ req[r].body.q = req[r].q

\* C4 witness: a request without enhancement was just answered with two
\* different suggestions while the cache holds an entity for the first.
C4_Witness ==
  \E r \in Requests :
    /\ resumedWithList(r)
    /\ req[r].enhance # "true"
    /\ Len(req[r].rawSuggestions) = 2
    /\ req[r].rawSuggestions[1].displayText # req[r].rawSuggestions[2].displayText
    /\ isCached(r, 1)
    /\ cache[req[r].suggestions[1].title].type = "entity"
    /\ req[r].status = 200

\* C5: with enhance=true and every title cached at lookup time, the answer
\* holds the N cached entries in suggestion order under the one-day header,
\* the merger reports fully enhanced, no entity-API call is issued and the
\* step writes nothing to the cache.
C5_AllCached ==
  [][\A r \in Requests :
       (/\ resumedWithList(r)'
        /\ last' # last
        /\ req'[r].enhance = "true"
        /\ \A i \in 1..Len(req'[r].suggestions) :
             req'[r].suggestions[i].title \in DOMAIN cache)
         => /\ req'[r].status = 200
            /\ Len(req'[r].body.suggestions) = Len(req'[r].rawSuggestions)
            /\ \A i \in 1..Len(req'[r].rawSuggestions) :
                 req'[r].body.suggestions[i] = cache[req'[r].rawSuggestions[i].displayText]
            /\ fetchBingEntities(cache, req'[r].suggestions).fullyEnhanced
            /\ req'[r].cacheControl = OneDay
            /\ req'[r].entityCalls = 0
            /\ pendingOf(r)' = {}
            /\ pending' = pending
            /\ cache' = cache]_vars

\* C5 witness: a request with enhance=true for two different titles was just
\* answered from the cache alone, one entry an entity.
C5_Witness ==
  \E r \in Requests :
    /\ resumedWithList(r)
    /\ req[r].enhance = "true"
    /\ Len(req[r].suggestions) = 2
    /\ req[r].suggestions[1].title # req[r].suggestions[2].title
    /\ \A i \in 1..2 : isCached(r, i)
    /\ req[r].body.suggestions[1].type = "entity"
    /\ req[r].cacheControl = OneDay
    /\ req[r].entityCalls = 0

\* C6: with enhance=true and none of the N >= 1 titles cached at lookup time,
\* the answer holds the N raw suggestions unchanged, carries no Cache-Control
\* header, and exactly N entity-API calls are issued, one per slot, also when
\* two slots carry the same title.
C6_NoneCached ==
  \A r \in Requests :
    (/\ resumedWithList(r)
     /\ req[r].enhance = "true"
     /\ Len(req[r].rawSuggestions) >= 1
     /\ \A i \in 1..Len(req[r].suggestions) : ~isCached(r, i))
      => /\ req[r].status = 200
         /\ Len(req[r].body.suggestions) = Len(req[r].rawSuggestions)
         /\ \A i \in 1..Len(req[r].rawSuggestions) :
              req[r].body.suggestions[i] = plainOf(req[r].rawSuggestions[i])
         /\ req[r].cacheControl = undefined
         /\ req[r].entityCalls = Len(req[r].rawSuggestions)
         /\ pendingOf(r) = {<<r, x>> : x \in 1..Len(req[r].rawSuggestions)}

\* C6 witness: a request with enhance=true was just answered with the same
\* uncached title in both slots, and two entity-API calls are in flight.
C6_Witness ==
  \E r \in Requests :
    /\ resumedWithList(r)
    /\ req[r].enhance = "true"
    /\ Len(req[r].suggestions) = 2
    /\ req[r].suggestions[1].title = req[r].suggestions[2].title
    /\ ~isCached(r, 1)
    /\ req[r].entityCalls = 2
    /\ Cardinality(pendingOf(r)) = 2
    /\ req[r].cacheControl = undefined

\* C7 as stated: once every enrichment call of a request with enhance=true and
\* no title cached has been answered (by any shape of answer: no call failed
\* to answer) and no flush came in between, every title of the request is in
\* the cache, so that an identical request is served from the cache alone.
C7_CachedAfterSettle ==
  \A r \in Requests :
    (/\ req[r].status = 200
     /\ req[r].enhance = "true"
     /\ Len(req[r].suggestions) >= 1
     /\ req[r].entityCalls = Len(req[r].suggestions)
     /\ pendingOf(r) = {}
     /\ r \notin disturbed
     /\ running)
      => /\ \A i \in 1..Len(req[r].suggestions) : isCached(r, i)
         /\ fetchBingEntities(cache, req[r].suggestions).fullyEnhanced
         /\ fetchBingEntities(cache, req[r].suggestions).fetches = {}

\* C8: when an enrichment call is answered with a dominant entity whose name
\* differs from the title case-insensitively, the value written under the
\* title is the plain suggestion: type "search", the same title and value, no
\* entityImage and no subtitle2; a lookup of the title returns just that.
C8_MismatchCachesPlain ==
  (last.op = "settle" /\ last.kind = "Mismatch")
    => LET suggestion == req[last.r].suggestions[last.x]
       IN  /\ suggestion.title \in DOMAIN cache
           /\ cache[suggestion.title] = plainOf(req[last.r].rawSuggestions[last.x])
           /\ cacheGet(cache, suggestion.title).type = "search"
           /\ DOMAIN cacheGet(cache, suggestion.title) = {"type", "title", "value"}

\* C8 witness: an enrichment call was just answered with a dominant entity of
\* another name, and the title's entry is a plain suggestion.
C8_Witness ==
  /\ last.op = "settle"
  /\ last.kind = "Mismatch"
  /\ cache[req[last.r].suggestions[last.x].title].type = "search"

\* C9: a maintenance tick that finds more than 128,000,000 bytes of key size
\* plus value size in the cache leaves the cache without any entry.
C9_FlushOverLimit ==
  [][(MaintenanceTick /\ getStats(cache).ksize + getStats(cache).vsize > 128000000)
       => DOMAIN cache' = {}]_vars

\* C9 witness: a tick just flushed the cache.
C9_Witness ==
  /\ last.op = "tick"
  /\ last.kind = "flushed"
  /\ cache = EmptyCache
  /\ disturbed # {}

\* C10: the merger returns as many slots as it was given suggestions, in the
\* same order; slot i is the cache entry under suggestions[i].title if there
\* is one at lookup time, and suggestions[i] itself otherwise.
C10_MergerSlots ==
  \A r \in Requests :
    (resumedWithList(r) /\ req[r].enhance = "true")
      => /\ Len(req[r].body.suggestions) = Len(req[r].suggestions)
         /\ \A i \in 1..Len(req[r].suggestions) :
              req[r].body.suggestions[i] =
                IF isCached(r, i) THEN cache[req[r].suggestions[i].title]
                                  ELSE req[r].suggestions[i]

\* C10 witness: the merger just answered two slots, the first from the cache
\* with an entity and the second, not cached, with the suggestion itself.
C10_Witness ==
  \E r \in Requests :
    /\ resumedWithList(r)
    /\ req[r].enhance = "true"
    /\ Len(req[r].suggestions) = 2
    /\ isCached(r, 1)
    /\ req[r].body.suggestions[1].type = "entity"
    /\ ~isCached(r, 2)
    /\ req[r].body.suggestions[2] = req[r].suggestions[2]

\* C11: the merger's fully-enhanced flag is true exactly when every slot was
\* a cache hit (so it is true for no suggestion at all and false as soon as
\* one slot misses), and a 200 response carries the one-day Cache-Control
\* header exactly when enhancement was not requested or that flag is true.
C11_FlagAndHeader ==
  \A r \in Requests :
    /\ (resumedWithList(r) /\ req[r].enhance = "true")
         => LET allHit == \A i \in 1..Len(req[r].suggestions) : isCached(r, i)
            IN  /\ fetchBingEntities(cache, req[r].suggestions).fullyEnhanced <=> allHit
                /\ (req[r].cacheControl = OneDay) <=> allHit
                /\ req[r].cacheControl \in {OneDay, undefined}
    /\ (req[r].status = 200 /\ req[r].enhance # "true")
         => req[r].cacheControl = OneDay
    /\ (req[r].status = 200 /\ req[r].cacheControl # OneDay)
         => (req[r].enhance = "true" /\ req[r].entityCalls > 0)

\* C11 witness: a request with enhance=true was just answered with a miss in
\* its first slot and a hit in its second, without the header.
C11_Witness ==
  \E r \in Requests :
    /\ resumedWithList(r)
    /\ req[r].enhance = "true"
    /\ Len(req[r].suggestions) = 2
    /\ ~isCached(r, 1)
    /\ isCached(r, 2)
    /\ req[r].status = 200
    /\ req[r].cacheControl = undefined

\* C12: an enrichment call that fails, or that is answered with the rate-limit
\* envelope, raises no error into the process, leaves the response of its
\* request as it was sent, and lets the other enrichment calls of the request
\* complete: after it the process runs on, and the request still has its 200
\* response.
C12_EnrichmentErrorIsolated ==
  (last.op = "settle" /\ last.kind \in {"NetworkFailure", "RateLimitExceeded"})
    => /\ running
       /\ req[last.r].pc = "returned"
       /\ req[last.r].status = 200
       /\ req[last.r].body # noObject

\* C13: when the suggestion fetch fails with anything but a classified
\* ServerError (a network failure, an error envelope that is not the
\* rate-limit one), the handler returns without status, header or body, and
\* the request never gets a response later; a classified error is answered
\* with its status code alone: 400 without q, 500 without credential, 429 on
\* the rate-limit envelope.
C13_UnclassifiedIsSilent ==
  [][\A r \in Requests :
       /\ req[r].pc = "returned" => req'[r] = req[r]
       /\ (/\ last'.op = "resume"
           /\ last'.r = r
           /\ last'.kind \in {"NetworkFailure", "InvalidAuthorization"})
            => /\ req'[r].pc = "returned"
               /\ req'[r].status = 0
               /\ req'[r].cacheControl = undefined
               /\ req'[r].body = noObject
       /\ (last'.op = "resume" /\ last'.r = r /\ last'.kind = "RateLimitExceeded")
            => req'[r].status = 429
       /\ (last'.op = "start" /\ last'.r = r /\ req'[r].pc = "returned")
            => req'[r].status = IF req'[r].q = undefined THEN 400 ELSE 500
       /\ req'[r].status \in {400, 429, 500}
            => (req'[r].cacheControl = undefined /\ req'[r].body = noObject)]_vars

\* C13 witness: a request was just resumed with an error envelope that is not
\* the rate-limit one, and has returned without any response.
C13_Witness ==
  /\ last.op = "resume"
  /\ last.kind = "InvalidAuthorization"
  /\ req[last.r].pc = "returned"
  /\ req[last.r].status = 0
  /\ req[last.r].body = noObject

\* C14: once the enrichment call of a missed slot is answered, one entry is
\* written under the suggestion's title: the enriched form (type "entity")
\* if and only if the answer holds a dominant entity of the title's name
\* (case-insensitively), and the plain suggestion in every other case: no
\* entities field, empty entity list, entity not dominant, name mismatch,
\* rate-limit envelope.
C14_OneWritePerAnswer ==
  (last.op = "settle" /\ last.kind # "NetworkFailure")
    => LET suggestion == req[last.r].suggestions[last.x]
       IN  /\ suggestion.title \in DOMAIN cache
           /\ IF last.kind = "Match"
                THEN cache[suggestion.title].type = "entity"
                ELSE cache[suggestion.title] = suggestion

\* C15: the response of a request is sent before any of its enrichment calls
\* completes: while a call of the request is in flight the request already
\* has its 200 response, and the response holds the raw suggestion in every
\* slot a call was issued for, never data of that call.
C15_ResponseBeforeWrites ==
  /\ \A p \in pending :
       /\ req[p[1]].pc = "returned"
       /\ req[p[1]].status = 200
       /\ req[p[1]].body.suggestions[p[2]] = plainOf(req[p[1]].rawSuggestions[p[2]])
  /\ \A r \in Requests :
       (resumedWithList(r) /\ req[r].enhance = "true")
         => \A i \in 1..Len(req[r].suggestions) :
              ~isCached(r, i)
                => /\ <<r, i>> \in pending
                   /\ req[r].body.suggestions[i] = plainOf(req[r].rawSuggestions[i])

\* C15 witness: an enrichment call just wrote an entity under its title,
\* after its request was answered with the raw suggestion in that slot, and
\* another call of the request is still in flight.
C15_Witness ==
  /\ last.op = "settle"
  /\ last.kind = "Match"
  /\ cache[req[last.r].suggestions[last.x].title].type = "entity"
  /\ req[last.r].status = 200
  /\ req[last.r].body.suggestions[last.x].type = "search"
  /\ pendingOf(last.r) # {}

\* C16: when two requests with enhance=true both missed the same title and
\* both issued an enrichment call for it, every call that gets a response
\* writes the cache under that title, and the entry left in the cache is the
\* one of the call that was answered last: the enriched form for a dominant
\* match, the plain suggestion otherwise.
C16_LastWriterWins ==
  (last.op = "settle" /\ last.kind # "NetworkFailure")
    => LET suggestion == req[last.r].suggestions[last.x]
       IN  \A r2 \in Requests \ {last.r} :
             ( /\ req[r2].status = 200
               /\ req[r2].enhance = "true"
               /\ req[r2].entityCalls = Len(req[r2].suggestions)
               /\ \E y \in 1..Len(req[r2].suggestions) :
                    req[r2].suggestions[y].title = suggestion.title )
               => /\ suggestion.title \in DOMAIN cache
                  /\ IF last.kind = "Match"
                       THEN cache[suggestion.title].type = "entity"
                       ELSE cache[suggestion.title] = suggestion

\* C17: in every reachable state every cache entry stored under key k has a
\* title equal to k up to case and the type "search" or "entity"; an entry of
\* type "search" has exactly the title k and no entityImage nor subtitle2.
C17_CacheEntryShape ==
  \A k \in DOMAIN cache :
    /\ toLowerCase(cache[k].title) = toLowerCase(k)
    /\ cache[k].type \in {"search", "entity"}
    /\ cache[k].type = "search"
         => /\ cache[k].title = k
            /\ "entityImage" \notin DOMAIN cache[k]
            /\ "subtitle2" \notin DOMAIN cache[k]

\* C17 witness: the cache holds an entity whose title differs from its key
\* in case only, next to a plain suggestion under another key.
C17_Witness ==
  /\ "a" \in DOMAIN cache
  /\ cache["a"].type = "entity"
  /\ cache["a"].title = "A"
  /\ "b" \in DOMAIN cache
  /\ cache["b"].type = "search"

\* C18: a maintenance tick taken while key sizes plus value sizes are at most
\* 128,000,000 bytes leaves the cache as it is; a key leaves the cache only
\* by a tick taken above that size, which empties the cache: no request and
\* no enrichment completion removes an entry.
C18_FlushOnlyAboveLimit ==
  [][/\ ( /\ last'.op = "tick"
          /\ getStats(cache).ksize + getStats(cache).vsize <= 128000000 )
          => cache' = cache
     /\ (\E k \in DOMAIN cache : k \notin DOMAIN cache')
          => /\ last'.op = "tick"
             /\ getStats(cache).ksize + getStats(cache).vsize > 128000000
             /\ cache' = EmptyCache]_vars

\* C18 witness: a tick found two entries of exactly 128,000,000 bytes in all
\* and kept them.
C18_Witness ==
  /\ last.op = "tick"
  /\ last.kind = "kept"
  /\ getStats(cache).ksize + getStats(cache).vsize = 128000000
  /\ Cardinality(DOMAIN cache) = 2

\* C19: a step of the handler for a request whose enhance parameter is not
\* the string "true", or which ends with status 400, 429 or 500, leaves the
\* cache as it was and issues no entity-API call, and the request has made
\* no cache lookup.
C19_NoCacheUse ==
  [][\A r \in Requests :
       ( /\ req'[r] # req[r]
         /\ \/ req'[r].enhance # "true"
            \/ req'[r].status \in {400, 429, 500} )
         => /\ cache' = cache
            /\ pending' = pending
            /\ pendingOf(r) = {}
            /\ req'[r].entityCalls = 0
            /\ req'[r].cacheGets = 0]_vars

\* C19 witness: a request with enhance=1 was just answered with the raw
\* suggestion for a title the cache holds an entity for.
C19_Witness ==
  /\ last.op = "resume"
  /\ last.kind = "Suggestions"
  /\ req[last.r].enhance = "1"
  /\ req[last.r].status = 200
  /\ req[last.r].cacheGets = 0
  /\ \E i \in 1..Len(req[last.r].suggestions) :
       /\ isCached(last.r, i)
       /\ cache[req[last.r].suggestions[i].title].type = "entity"
       /\ req[last.r].body.suggestions[i].type = "search"
====
